---- MODULE Spec2Model ----
(***************************************************************************)
(* Apilage AI Platform backend: the credit ledger, the authentication      *)
(* middleware, the health routes and the process lifecycle.                *)
(*                                                                         *)
(* Two builds of the entry point and of the health router are in the       *)
(* repository (src/app.js and a variant with a drain timeout; routes/      *)
(* health.js and a variant whose readiness probe tests the connection).    *)
(* The variables appBuild and healthBuild select between them.             *)
(***************************************************************************)
EXTENDS Integers, FiniteSets, Sequences, Bags, TLC

(***************************************************************************)
(* Bounds                                                                  *)
(***************************************************************************)
NumCalls == 3        \* request slots of the ledger specification
NumSlots == 1        \* request slots of the lifecycle specification
MaxCredits == 2      \* largest initial balance
MaxFaults == 1       \* injected faults and malformed inputs per run
MaxLimitLen == 2     \* longest value of the query parameter 'limit'
MaxGcRequests == 2   \* collections counted within one breach
MaxUpdates == 1      \* profile updates per run

Calls == 1..NumCalls
Slots == 1..NumSlots

VARIABLES
    \* configuration, fixed after Init
    nodeEnv,         \* config.server.nodeEnv
    appBuild,        \* "app_js" (src/app.js) or "part_008" (drain-timeout build)
    healthBuild,     \* "health_js" (routes/health.js) or "part_012"
    missingEnvVars,  \* the variables of REQUIRED_ENV_VARS that are not set
    runtime,         \* the Node.js line that runs the process
    LOG_LEVEL,       \* process.env.LOG_LEVEL, or "unset"
    DISABLE_MEMORY_MONITORING,  \* the environment variable, or "unset"
    gcAvailable,     \* global.gc is defined (node --expose-gc)
    \* the memory monitor and the logger
    monitoring,      \* the setInterval timer of startMemoryMonitoring runs
    sampled,         \* heapUsed at the monitor's last check, 0 before it
    gcRequests,      \* calls of global.gc() since the monitor last saw
                     \* heapUsed at or below MEMORY_THRESHOLDS.CRITICAL
    lastLog,         \* the last call of the logger and whether it wrote
    \* the Firestore store
    userDoc,         \* fields of the account document (a record; fields may be absent)
    userExists,      \* the account document exists
    docVersion,      \* update counter of the document (transaction validation)
    requests,        \* bag of the documents of the 'requests' collection, by slot
    storeUp,         \* the store is reachable
    \* the process
    mainPc,          \* position of main()
    db,              \* database.js: db !== null
    listening,       \* the listener accepts new connections
    isShuttingDown,  \* flag of setupGracefulShutdown (drain-timeout build)
    closing,         \* server.close() was called, its callback is pending
    forceTimeout,    \* the force-shutdown timer is armed
    exitCode,        \* -1 while the process runs, else the exit code
    exitCause,       \* "none" while the process runs, else why it ended
    reported,        \* the variables named by the missing-variables report
    \* connections and requests
    conn,            \* per slot: "none", "open", "closed"
    req,             \* per slot: the request carried by the connection
    \* history
    initDoc,         \* the account document at start
    faults,          \* number of faults and malformed inputs injected so far
    signalled,       \* a termination signal was delivered
    trigger          \* the last signal or uncaught fault delivered, with a
                     \* tick that flips at every delivery

envVars    == <<nodeEnv, appBuild, healthBuild, missingEnvVars, runtime,
               LOG_LEVEL, DISABLE_MEMORY_MONITORING, gcAvailable>>
monitorVars == <<monitoring, sampled, gcRequests>>
\* the configuration and the state of the utilities, which the request
\* handlers and the shutdown steps leave alone
configVars == <<envVars, monitorVars, lastLog>>
storeVars  == <<userDoc, userExists, docVersion, requests, storeUp>>
procVars   == <<mainPc, db, listening, isShuttingDown, closing, forceTimeout,
               exitCode, exitCause, reported>>
reqVars    == <<conn, req>>
histVars   == <<initDoc, faults, signalled, trigger>>
vars == <<configVars, storeVars, procVars, reqVars, histVars>>

(***************************************************************************)
(* Account documents                                                       *)
(***************************************************************************)
Has(doc, f) == f \in DOMAIN doc

\* userData.credits || 0, userData.totalRequests || 0
OrZero(doc, f) == IF Has(doc, f) THEN doc[f] ELSE 0

\* transaction.update(userRef, fields): the named fields are replaced, the
\* others kept
Update(doc, fields) == fields @@ doc

CreditsParts == {<<>>} \cup {[credits |-> c] : c \in 0..MaxCredits}
StatusParts  == {<<>>} \cup {[status |-> s] : s \in {"active", "suspended"}}
\* totalRequests may be absent from an account that never made a call
TotalParts   == {<<>>, [totalRequests |-> MaxCredits]}
InitDocs == {c @@ s @@ t @@ [lastUsed |-> 0] :
                c \in CreditsParts, s \in StatusParts, t \in TotalParts}

(***************************************************************************)
(* Requests                                                                *)
(***************************************************************************)
NoReq == [kind |-> "none", pc |-> "none", status |-> 0, code |-> "",
          newCredits |-> 0, newTotalRequests |-> 0, readVersion |-> 0,
          credits_remaining |-> 0, request_id |-> FALSE, afterSignal |-> FALSE,
          admitted |-> FALSE, generated |-> FALSE, header |-> "none",
          database |-> "", ai_service |-> "", heapUsed |-> 0,
          limitGiven |-> FALSE, limit |-> <<>>, parsedLimit |-> 0,
          origin |-> "none", memory |-> ""]

Alive == exitCode = -1

\* a request is read from connection r and enters the middleware chain
Arrives(r) ==
    /\ Alive
    /\ mainPc = "listening"
    /\ conn[r] = "open"
    /\ req[r].pc = "none"

NewReq(k) == [NoReq EXCEPT !.kind = k, !.afterSignal = signalled]

\* the request record q keeps the origin that corsOptions.origin was called
\* with; the development options (origin: true) never look at the header
From(origin, q) ==
    [q EXCEPT !.origin = IF nodeEnv = "development" THEN "any" ELSE origin]

\* the request record once res.status(s).json({code: c}) has run: the
\* response reaches the client only over a connection that is still open
Answered(q, r, s, c) ==
    [q EXCEPT !.pc = IF conn[r] = "open" THEN "done" ELSE "lost",
              !.status = s, !.code = c,
              !.newCredits = 0, !.newTotalRequests = 0, !.readVersion = 0]

Respond(r, s, c) == req' = [req EXCEPT ![r] = Answered(req[r], r, s, c)]

Goto(r, p) == req' = [req EXCEPT ![r].pc = p]

\* an injected fault or malformed input uses up one unit of the budget
Inject(isFault) ==
    /\ isFault => faults < MaxFaults
    /\ faults' = IF isFault THEN faults + 1 ELSE faults

(***************************************************************************)
(* middleware/cors.js                                                      *)
(***************************************************************************)
isDevelopment == nodeEnv = "development"

Origins == {"allowed", "absent", "other"}

\* getCorsMiddleware: devCorsOptions admit every origin, corsOptions.origin
\* admits the listed origins only (an absent Origin header is not listed)
corsAllows_absentOk(origin) ==
    IF isDevelopment THEN TRUE
    ELSE origin \in {"allowed", "absent"}

corsAllows(origin) ==
    IF isDevelopment THEN TRUE
    ELSE origin = "allowed"

(***************************************************************************)
(* middleware/auth.js: verifyApiKey                                        *)
(***************************************************************************)
Headers == {"missing", "malformed", "unknown", "valid"}

headerError_noFormatCheck(h) ==
    IF h = "missing" THEN "MISSING_AUTH_HEADER" ELSE ""

\* the code of the 401 that verifyApiKey answers before the lookup: no
\* 'Bearer ' header, or a key shorter than 10 characters; "" when the
\* header passes
headerError(h) ==
    CASE h = "missing"   -> "MISSING_AUTH_HEADER"
      [] h = "malformed" -> "INVALID_API_KEY_FORMAT"
      [] OTHER           -> ""

\* a POST /api/chat with header h
ChatReq(h) == [NewReq("chat") EXCEPT !.header = h]

\* the synchronous part: CORS, header checks, then the users query is issued
verifyApiKey_begin(r) ==
    /\ Arrives(r)
    /\ \E origin \in Origins, h \in Headers :
         /\ Inject(~corsAllows(origin) \/ h # "valid")
         /\ req' = [req EXCEPT ![r] = From(origin,
              IF ~corsAllows(origin)
              THEN Answered(ChatReq(h), r, 403, "CORS_ERROR")
              ELSE IF headerError(h) # ""
              THEN Answered(ChatReq(h), r, 401, headerError(h))
              ELSE IF ~db
              THEN Answered(ChatReq(h), r, 500, "AUTH_ERROR")
              ELSE [ChatReq(h) EXCEPT !.pc =
                       IF h = "valid" THEN "auth" ELSE "authUnknown"])]
    /\ UNCHANGED <<configVars, storeVars, procVars, conn, initDoc, signalled,
                   trigger>>

authInsufficient_negative(doc) == Has(doc, "credits") /\ doc.credits < 0

\* userData.credits <= 0 (an absent field compares false)
authInsufficient(doc) == Has(doc, "credits") /\ doc.credits <= 0

authSuspended_afterCredits(doc) ==
    Has(doc, "status") /\ doc.status = "suspended" /\ ~authInsufficient(doc)

\* userData.status && userData.status === 'suspended'
authSuspended(doc) == Has(doc, "status") /\ doc.status = "suspended"

Messages == {"ok", "invalid"}

\* the users query resolves; on success next() enters the chat handler,
\* whose generateAIResponse validates the message and calls the AI service
verifyApiKey_resume(r) ==
    /\ Alive
    /\ req[r].pc \in {"auth", "authUnknown"}
    /\ IF ~storeUp
       THEN /\ \E c \in {"SERVICE_UNAVAILABLE", "AUTH_ERROR"} :
                 Respond(r, IF c = "SERVICE_UNAVAILABLE" THEN 503 ELSE 500, c)
            /\ UNCHANGED faults
       ELSE IF req[r].pc = "authUnknown" \/ ~userExists
       THEN Respond(r, 401, "INVALID_API_KEY") /\ UNCHANGED faults
       ELSE IF authSuspended(userDoc)
       THEN Respond(r, 403, "ACCOUNT_SUSPENDED") /\ UNCHANGED faults
       ELSE IF authInsufficient(userDoc)
       THEN Respond(r, 403, "INSUFFICIENT_CREDITS") /\ UNCHANGED faults
       ELSE \E m \in Messages :
              /\ Inject(m = "invalid")
              /\ IF m = "invalid"
                 THEN req' = [req EXCEPT ![r] = [Answered(req[r], r, 400,
                                 "INVALID_MESSAGE") EXCEPT !.admitted = TRUE]]
                 ELSE req' = [req EXCEPT ![r] = [@ EXCEPT !.pc = "gen",
                                 !.admitted = TRUE, !.generated = TRUE]]
    /\ UNCHANGED <<configVars, storeVars, procVars, conn, initDoc, signalled,
                   trigger>>

(***************************************************************************)
(* services/geminiService.js: generateAIResponse; routes/chat.js           *)
(***************************************************************************)
GenOutcomes == {"ok", "timeout", "rejected4xx", "rejected5xx", "unavailable"}

\* status of the ApiError that generateAIResponse throws
genErrorStatus(o) ==
    CASE o = "timeout"     -> 408
      [] o = "rejected4xx" -> 429
      [] o = "rejected5xx" -> 500
      [] OTHER             -> 503

genErrorCode(o) ==
    CASE o = "timeout"     -> "AI_TIMEOUT"
      [] o = "unavailable" -> "AI_SERVICE_UNAVAILABLE"
      [] OTHER             -> "AI_SERVICE_ERROR"

\* the AI call settles; on success deductCredits starts its transaction
generateAIResponse_resume(r) ==
    /\ Alive
    /\ req[r].pc = "gen"
    /\ \E o \in GenOutcomes :
         /\ Inject(o # "ok")
         /\ IF o = "ok"
            THEN Goto(r, "txGet")
            ELSE Respond(r, genErrorStatus(o), genErrorCode(o))
    /\ UNCHANGED <<configVars, storeVars, procVars, conn, initDoc, signalled,
                   trigger>>

(***************************************************************************)
(* services/userService.js: deductCredits                                  *)
(***************************************************************************)
creditsToDeduct == 1

debitInsufficient_negative(doc) == OrZero(doc, "credits") < 0

\* currentCredits < creditsToDeduct
debitInsufficient(doc) == OrZero(doc, "credits") < creditsToDeduct

\* FieldValue.serverTimestamp(): the commit time of the write
serverTimestamp == docVersion + 1

\* (userData.totalRequests || 0) + 1
nextTotalRequests_reset(doc) == 1

nextTotalRequests_same(doc) == OrZero(doc, "totalRequests")

nextTotalRequests(doc) == OrZero(doc, "totalRequests") + 1

\* transaction.get(userRef) resolves and the update function runs
deductCredits_get(r) ==
    /\ Alive
    /\ req[r].pc = "txGet"
    /\ IF ~storeUp
       THEN Respond(r, 500, "CREDIT_DEDUCTION_ERROR")
       ELSE IF ~userExists
       THEN Respond(r, 404, "USER_NOT_FOUND")
       ELSE IF debitInsufficient(userDoc)
       THEN Respond(r, 403, "INSUFFICIENT_CREDITS")
       ELSE req' = [req EXCEPT ![r] = [@ EXCEPT
                       !.pc = "txCommit",
                       !.newCredits = OrZero(userDoc, "credits") - creditsToDeduct,
                       !.newTotalRequests = nextTotalRequests(userDoc),
                       !.readVersion = docVersion]]
    /\ UNCHANGED <<configVars, storeVars, procVars, conn, histVars>>

commitConflicts_never(r) == FALSE

\* the store validates the read set: a document written since
\* transaction.get makes the attempt retry
commitConflicts(r) == req[r].readVersion # docVersion

debitFields_keepCredits(r) ==
    [credits |-> OrZero(userDoc, "credits"),
     totalRequests |-> req[r].newTotalRequests,
     lastUsed |-> serverTimestamp]

debitFields_partial(r) ==
    [credits |-> req[r].newCredits,
     totalRequests |-> req[r].newTotalRequests]

\* the fields handed to transaction.update
debitFields(r) ==
    [credits |-> req[r].newCredits,
     totalRequests |-> req[r].newTotalRequests,
     lastUsed |-> serverTimestamp]

updatedUser_credits_stale(r) == req[r].newCredits + creditsToDeduct

\* the credits of the object the transaction returns: {...userData,
\* credits: newCredits}, which chat.js reports as credits_remaining
updatedUser_credits(r) == req[r].newCredits

\* the transaction commits (the fields are written together), retries after
\* a conflicting write, or fails
deductCredits_commit(r) ==
    /\ Alive
    /\ req[r].pc = "txCommit"
    /\ IF ~storeUp \/ ~userExists
       THEN Respond(r, 500, "CREDIT_DEDUCTION_ERROR") /\ UNCHANGED storeVars
       ELSE IF commitConflicts(r)
       THEN /\ req' = [req EXCEPT ![r] = [@ EXCEPT !.pc = "txGet",
                          !.newCredits = 0, !.newTotalRequests = 0,
                          !.readVersion = 0]]
            /\ UNCHANGED storeVars
       ELSE /\ userDoc' = Update(userDoc, debitFields(r))
            /\ docVersion' = docVersion + 1
            /\ req' = [req EXCEPT ![r] = [@ EXCEPT !.pc = "log",
                          !.credits_remaining = updatedUser_credits(r),
                          !.newCredits = 0, !.newTotalRequests = 0,
                          !.readVersion = 0]]
            /\ UNCHANGED <<userExists, requests, storeUp>>
    /\ UNCHANGED <<configVars, procVars, conn, histVars>>

(***************************************************************************)
(* services/userService.js: logUserRequest; routes/chat.js: res.json       *)
(***************************************************************************)
logFailure_rethrown == [status |-> 500, code |-> "INTERNAL_ERROR"]

\* the catch block of logUserRequest returns null instead of throwing, so
\* the handler goes on to res.json
logFailure == [status |-> 200, code |-> "OK"]

auditRecords_twice(r) == SetToBag({r}) (+) SetToBag({r})

\* db.collection('requests').add(...): one new document per call
auditRecords(r) == SetToBag({r})

logUserRequest_resume_early(r) ==
    /\ Alive
    /\ req[r].pc \in {"txCommit", "log"}
    /\ requests' = IF storeUp THEN requests (+) auditRecords(r) ELSE requests
    /\ req' = [req EXCEPT ![r] =
                 IF storeUp
                 THEN [Answered(req[r], r, 200, "OK") EXCEPT !.request_id = TRUE]
                 ELSE [Answered(req[r], r, logFailure.status, logFailure.code)
                          EXCEPT !.request_id = FALSE]]
    /\ UNCHANGED <<configVars, userDoc, userExists, docVersion, storeUp,
                   procVars, conn, histVars>>

\* db.collection('requests').add settles (a failure becomes a null id) and
\* the handler sends the success response
logUserRequest_resume(r) ==
    /\ Alive
    /\ req[r].pc = "log"
    /\ requests' = IF storeUp THEN requests (+) auditRecords(r) ELSE requests
    /\ req' = [req EXCEPT ![r] =
                 IF storeUp
                 THEN [Answered(req[r], r, 200, "OK") EXCEPT !.request_id = TRUE]
                 ELSE [Answered(req[r], r, logFailure.status, logFailure.code)
                          EXCEPT !.request_id = FALSE]]
    /\ UNCHANGED <<configVars, userDoc, userExists, docVersion, storeUp,
                   procVars, conn, histVars>>

(***************************************************************************)
(* The environment of the store                                            *)
(***************************************************************************)
StoreGoesDown ==
    /\ storeUp
    /\ storeUp' = FALSE
    /\ Inject(TRUE)
    /\ UNCHANGED <<configVars, userDoc, userExists, docVersion, requests,
                   procVars, reqVars, initDoc, signalled,
                   trigger>>

StoreComesUp ==
    /\ ~storeUp
    /\ storeUp' = TRUE
    /\ UNCHANGED <<configVars, userDoc, userExists, docVersion, requests,
                   procVars, reqVars, histVars>>

\* the account is removed out of band
AccountDeleted ==
    /\ userExists
    /\ userExists' = FALSE
    /\ Inject(TRUE)
    /\ UNCHANGED <<configVars, userDoc, docVersion, requests, storeUp,
                   procVars, reqVars, initDoc, signalled,
                   trigger>>

(***************************************************************************)
(* The ledger specification: a ready server, NumCalls open connections     *)
(***************************************************************************)
InitStore ==
    /\ initDoc = userDoc
    /\ userExists = TRUE
    /\ docVersion = 0
    /\ requests = EmptyBag
    /\ storeUp = TRUE
    /\ faults = 0
    /\ signalled = FALSE
    /\ trigger = [name |-> "none", tick |-> 0]

\* the container image sets DISABLE_MEMORY_MONITORING=true and leaves
\* LOG_LEVEL and --expose-gc unset
InitUtils ==
    /\ LOG_LEVEL = "unset"
    /\ DISABLE_MEMORY_MONITORING = "true"
    /\ gcAvailable = FALSE
    /\ monitoring = FALSE
    /\ sampled = 0
    /\ gcRequests = 0
    /\ lastLog = [severity |-> "none", emitted |-> FALSE]

InitLedger ==
    /\ nodeEnv = "production"
    /\ appBuild = "app_js"
    /\ healthBuild = "health_js"
    /\ missingEnvVars = {}
    /\ runtime = "node20"
    /\ userDoc \in InitDocs
    /\ InitStore
    /\ InitUtils
    /\ mainPc = "listening"
    /\ db = TRUE
    /\ listening = TRUE
    /\ isShuttingDown = FALSE
    /\ closing = FALSE
    /\ forceTimeout = FALSE
    /\ exitCode = -1
    /\ exitCause = "none"
    /\ reported = {}
    /\ conn = [r \in Calls |-> "open"]
    /\ req = [r \in Calls |-> NoReq]

ChatStep(r) ==
    \/ verifyApiKey_begin(r)
    \/ verifyApiKey_resume(r)
    \/ generateAIResponse_resume(r)
    \/ deductCredits_get(r)
    \/ deductCredits_commit(r)
    \/ logUserRequest_resume(r)

NextLedger ==
    \/ \E r \in Calls : ChatStep(r)
    \/ StoreGoesDown
    \/ StoreComesUp
    \/ AccountDeleted

SpecLedger == InitLedger /\ [][NextLedger]_vars

(***************************************************************************)
(* config/env.js, config/database.js, app.js: startup                      *)
(***************************************************************************)
\* FIREBASE_PRIVATE_KEY is read when config/database.js is loaded; the other
\* six required variables behave alike and GEMINI_API_KEY stands for them
REQUIRED_ENV_VARS == {"FIREBASE_PRIVATE_KEY", "GEMINI_API_KEY"}

\* process.exit(code), or the end of the process for another cause; the
\* operating system closes the sockets
Exit(code, cause) ==
    /\ exitCode' = code
    /\ exitCause' = cause
    /\ mainPc' = "exited"
    /\ listening' = FALSE
    /\ closing' = FALSE
    /\ forceTimeout' = FALSE
    /\ conn' = [r \in DOMAIN conn |-> IF conn[r] = "open" THEN "closed" ELSE conn[r]]

\* require('./config/database'): serviceAccount is built at load time and
\* process.env.FIREBASE_PRIVATE_KEY.replace throws when the variable is unset
loadModules ==
    /\ mainPc = "load"
    /\ IF "FIREBASE_PRIVATE_KEY" \in missingEnvVars
       THEN Exit(1, "load")
       ELSE /\ mainPc' = "init"
            /\ UNCHANGED <<listening, closing, forceTimeout, exitCode,
                           exitCause, conn>>
    /\ UNCHANGED <<configVars, storeVars, db, isShuttingDown, reported, req,
                   histVars>>

envIncomplete_never == FALSE

\* missingEnvVars.length > 0
envIncomplete == missingEnvVars # {}

\* initializeApp: validateEnvironment reports the missing variables and
\* throws; the catch block exits with code 1
validateEnvironment ==
    /\ mainPc = "init"
    /\ IF envIncomplete
       THEN /\ reported' = missingEnvVars
            /\ Exit(1, "config")
       ELSE /\ mainPc' = "validated"
            /\ UNCHANGED <<reported, listening, closing, forceTimeout,
                           exitCode, exitCause, conn>>
    /\ UNCHANGED <<configVars, storeVars, db, isShuttingDown, req, histVars>>

\* initializeDatabase: the Firestore client is built, or admin.initializeApp
\* throws and the process exits with code 1
initializeDatabase ==
    /\ mainPc = "validated"
    /\ \E ok \in BOOLEAN :
         IF ok
         THEN /\ db' = TRUE
              /\ mainPc' = "dbReady"
              /\ UNCHANGED <<listening, closing, forceTimeout, exitCode,
                             exitCause, conn>>
         ELSE /\ Exit(1, "database")
              /\ UNCHANGED db
    /\ UNCHANGED <<configVars, storeVars, isShuttingDown, reported, req,
                   histVars>>

(***************************************************************************)
(* utils/memoryMonitor.js                                                  *)
(***************************************************************************)
MEMORY_THRESHOLDS_WARNING == 300
MEMORY_THRESHOLDS_CRITICAL == 400
MEMORY_THRESHOLDS_MAX == 450

\* heapUsed in MB as process.memoryUsage() reports it when it is sampled
MemorySamples == {299, 300, 301, 400, 401, 450, 451}

\* getMemoryStatus: the classification of a sample
getMemoryStatus(heapUsed) ==
    IF heapUsed > MEMORY_THRESHOLDS_CRITICAL THEN "critical"
    ELSE IF heapUsed > MEMORY_THRESHOLDS_WARNING THEN "warning"
    ELSE "healthy"

\* forceGarbageCollection: the number of collections it requests; global.gc
\* exists only where node runs with --expose-gc
forceGarbageCollection == IF gcAvailable THEN 1 ELSE 0

\* checkMemoryUsage: the number of collections that the check of one sample
\* requests
checkMemoryUsage(heapUsed) ==
    IF heapUsed > MEMORY_THRESHOLDS_MAX THEN forceGarbageCollection
    ELSE IF heapUsed > MEMORY_THRESHOLDS_CRITICAL THEN forceGarbageCollection
    ELSE 0

\* the monitor after checkMemoryUsage has run on the sample heapUsed
Checked(heapUsed) ==
    /\ sampled' = heapUsed
    /\ gcRequests' =
         IF heapUsed > MEMORY_THRESHOLDS_CRITICAL
         THEN (IF sampled > MEMORY_THRESHOLDS_CRITICAL THEN gcRequests ELSE 0)
              + checkMemoryUsage(heapUsed)
         ELSE 0

\* startMemoryMonitoring: one check at once, then the timer
startMemoryMonitoring ==
    /\ \E heapUsed \in MemorySamples : Checked(heapUsed)
    /\ monitoring' = TRUE

monitoringDisabled_ignored == FALSE

\* process.env.DISABLE_MEMORY_MONITORING === 'true'
monitoringDisabled == DISABLE_MEMORY_MONITORING = "true"

\* setupChoreoMemoryMonitoring: both the container and the local branch
\* start the monitor, with different intervals
setupChoreoMemoryMonitoring ==
    IF monitoringDisabled THEN UNCHANGED monitorVars
    ELSE startMemoryMonitoring

\* the timer of startMemoryMonitoring fires
checkMemoryUsage_tick ==
    /\ Alive
    /\ monitoring
    /\ gcRequests < MaxGcRequests
    /\ \E heapUsed \in MemorySamples : Checked(heapUsed)
    /\ UNCHANGED <<envVars, monitoring, lastLog, storeVars, procVars, reqVars,
                   histVars>>

(***************************************************************************)
(* utils/logger.js                                                         *)
(***************************************************************************)
LOG_LEVELS == [error |-> 0, warn |-> 1, info |-> 2, debug |-> 3]

Severities == DOMAIN LOG_LEVELS

\* config.logging.level: process.env.LOG_LEVEL || 'info'
loggingLevel == IF LOG_LEVEL = "unset" THEN "info" ELSE LOG_LEVEL

\* getCurrentLogLevel: LOG_LEVELS[level] || LOG_LEVELS.info, where 0 and
\* undefined are falsy
getCurrentLogLevel ==
    IF loggingLevel \in DOMAIN LOG_LEVELS /\ LOG_LEVELS[loggingLevel] # 0
    THEN LOG_LEVELS[loggingLevel]
    ELSE LOG_LEVELS.info

\* error, warn, info, debug: the message is written when the current level
\* is at least the level of the function
emits(severity) == getCurrentLogLevel >= LOG_LEVELS[severity]

\* some module calls the logger
logger_call ==
    /\ Alive
    /\ \E severity \in Severities :
         lastLog' = [severity |-> severity, emitted |-> emits(severity)]
    /\ UNCHANGED <<envVars, monitorVars, storeVars, procVars, reqVars,
                   histVars>>

\* main: the middleware, the routes and the signal handlers are set up and
\* app.listen binds the port, all in the same turn of the event loop; main
\* of the drain-timeout build sets up the memory monitor first
startServer ==
    /\ mainPc = "dbReady"
    /\ mainPc' = "listening"
    /\ listening' = TRUE
    /\ IF appBuild = "part_008" THEN setupChoreoMemoryMonitoring
       ELSE UNCHANGED monitorVars
    /\ UNCHANGED <<envVars, lastLog, storeVars, db, isShuttingDown, closing,
                   forceTimeout, exitCode, exitCause, reported, reqVars,
                   histVars>>

(***************************************************************************)
(* app.js: setupGracefulShutdown                                           *)
(***************************************************************************)
Triggers == {"SIGTERM", "uncaughtException", "unhandledRejection"}

\* the event t is delivered to the process
Delivered(t) == trigger' = [name |-> t, tick |-> 1 - trigger.tick]

\* this step delivers a signal or an uncaught fault
DeliveredNow == trigger'.tick # trigger.tick

\* a signal that arrives before process.on has run has its default effect
killedBySignal ==
    /\ Alive
    /\ mainPc \in {"load", "init", "validated", "dbReady"}
    /\ Delivered("SIGTERM")
    /\ Exit(143, "killed")
    /\ signalled' = TRUE
    /\ UNCHANGED <<configVars, storeVars, db, isShuttingDown, reported, req,
                   initDoc, faults>>

Idle(r) == req[r].pc \in {"none", "done", "lost"}

\* "node16": server.close() leaves the open connections and there is no
\* closeAllConnections; "node20": server.close() also closes the idle
\* connections and closeAllConnections exists. The Dockerfile builds on
\* node:20
Runtimes == {"node16", "node20"}

\* what the shutdown does to the open connections: "keep" leaves them all,
\* "idle" closes those without a request in progress, "all" closes every one
ConnsAfter(mode) ==
    [r \in DOMAIN conn |->
        IF conn[r] = "open" /\ (mode = "all" \/ (mode = "idle" /\ Idle(r)))
        THEN "closed" ELSE conn[r]]

\* global.httpServer.close(cb)
closeMode_app_js == IF runtime = "node20" THEN "idle" ELSE "keep"

\* src/app.js: gracefulShutdown closes the server; process.exit(0) waits
\* for the close callback. There is no guard: every SIGTERM or SIGINT runs
\* it again
gracefulShutdown_app_js ==
    /\ Alive
    /\ mainPc = "listening"
    /\ appBuild = "app_js"
    /\ Delivered("SIGTERM")
    /\ signalled' = TRUE
    /\ listening' = FALSE
    /\ closing' = TRUE
    /\ conn' = ConnsAfter(closeMode_app_js)
    /\ UNCHANGED <<configVars, storeVars, mainPc, db, isShuttingDown,
                   forceTimeout, exitCode, exitCause, reported, req,
                   initDoc, faults>>

\* src/app.js: the uncaughtException and unhandledRejection handlers call
\* process.exit(1)
uncaughtFault_app_js ==
    /\ Alive
    /\ mainPc = "listening"
    /\ appBuild = "app_js"
    /\ \E t \in {"uncaughtException", "unhandledRejection"} : Delivered(t)
    /\ Exit(1, "fault")
    /\ UNCHANGED <<configVars, storeVars, db, isShuttingDown, reported, req,
                   initDoc, faults, signalled>>

\* httpServer.close(cb) followed by closeAllConnections?.(), which is a
\* no-op on a runtime without the method
closeMode_part_008 == IF runtime = "node16" THEN "keep" ELSE "all"

\* if (isShuttingDown) return
alreadyShuttingDown == isShuttingDown

drain_part_008_toggle ==
    IF alreadyShuttingDown
    THEN /\ isShuttingDown' = FALSE
         /\ UNCHANGED <<forceTimeout, listening, closing, conn>>
    ELSE /\ isShuttingDown' = TRUE
         /\ forceTimeout' = TRUE
         /\ listening' = FALSE
         /\ closing' = TRUE
         /\ conn' = ConnsAfter(closeMode_part_008)

\* drain-timeout build, the body of gracefulShutdown: a repeated call
\* returns at once; the first sets the flag, arms the force timer, closes
\* the server and calls closeAllConnections
drain_part_008 ==
    IF alreadyShuttingDown
    THEN UNCHANGED <<isShuttingDown, forceTimeout, listening, closing, conn>>
    ELSE /\ isShuttingDown' = TRUE
         /\ forceTimeout' = TRUE
         /\ listening' = FALSE
         /\ closing' = TRUE
         /\ conn' = ConnsAfter(closeMode_part_008)

\* drain-timeout build: SIGTERM, SIGINT or SIGUSR2 calls gracefulShutdown
gracefulShutdown_part_008 ==
    /\ Alive
    /\ mainPc = "listening"
    /\ appBuild = "part_008"
    /\ Delivered("SIGTERM")
    /\ signalled' = TRUE
    /\ drain_part_008
    /\ UNCHANGED <<configVars, storeVars, mainPc, db, exitCode, exitCause,
                   reported, req, initDoc, faults>>

\* drain-timeout build: an uncaught exception starts the graceful shutdown
\* in every mode, or exits with code 1 when one is already under way
uncaughtException_part_008 ==
    /\ Alive
    /\ mainPc = "listening"
    /\ appBuild = "part_008"
    /\ Delivered("uncaughtException")
    /\ IF ~isShuttingDown
       THEN /\ drain_part_008
            /\ UNCHANGED <<mainPc, exitCode, exitCause>>
       ELSE /\ Exit(1, "fault")
            /\ UNCHANGED isShuttingDown
    /\ UNCHANGED <<configVars, storeVars, db, reported, req, initDoc, faults,
                   signalled>>

\* config.server.nodeEnv === 'development'
rejectionShutsDown == nodeEnv = "development"

\* drain-timeout build: an unhandled rejection starts the graceful shutdown
\* in development and is only logged in every other mode
unhandledRejection_part_008 ==
    /\ Alive
    /\ mainPc = "listening"
    /\ appBuild = "part_008"
    /\ Delivered("unhandledRejection")
    /\ IF rejectionShutsDown
       THEN drain_part_008
       ELSE UNCHANGED <<isShuttingDown, forceTimeout, listening, closing, conn>>
    /\ UNCHANGED <<configVars, storeVars, mainPc, db, exitCode, exitCause,
                   reported, req, initDoc, faults, signalled>>

\* the callback of httpServer.close runs once no connection is left
serverClosed ==
    /\ Alive
    /\ closing
    /\ \A r \in DOMAIN conn : conn[r] # "open"
    /\ Exit(0, "closed")
    /\ UNCHANGED <<configVars, storeVars, db, isShuttingDown, reported, req,
                   histVars>>

\* the force-shutdown timer of the drain-timeout build fires
forceShutdown ==
    /\ Alive
    /\ forceTimeout
    /\ Exit(1, "timeout")
    /\ UNCHANGED <<configVars, storeVars, db, isShuttingDown, reported, req,
                   histVars>>

(***************************************************************************)
(* Connections                                                             *)
(***************************************************************************)
\* the listener accepts a connection
serverAccepts_always == TRUE

serverAccepts == listening

Connect(r) ==
    /\ Alive
    /\ serverAccepts
    /\ conn[r] = "none"
    /\ conn' = [conn EXCEPT ![r] = "open"]
    /\ UNCHANGED <<configVars, storeVars, procVars, req, histVars>>

\* the client, or the keep-alive timeout, ends a connection that has no
\* request in progress
ConnEnd(r) ==
    /\ Alive
    /\ conn[r] = "open"
    /\ Idle(r)
    /\ conn' = [conn EXCEPT ![r] = "closed"]
    /\ UNCHANGED <<configVars, storeVars, procVars, req, histVars>>

\* the response was sent with keep-alive: the connection waits for the next
\* request
keepAlive(r) ==
    /\ Alive
    /\ conn[r] = "open"
    /\ req[r].pc = "done"
    /\ req' = [req EXCEPT ![r] = NoReq]
    /\ UNCHANGED <<configVars, storeVars, procVars, conn, histVars>>

(***************************************************************************)
(* routes/health.js                                                        *)
(***************************************************************************)
\* GET /api/health/live passes the CORS middleware and is answered at once
live(r) ==
    /\ Arrives(r)
    /\ \E origin \in Origins :
         /\ Inject(~corsAllows(origin))
         /\ req' = [req EXCEPT ![r] = From(origin,
              IF corsAllows(origin)
              THEN Answered(NewReq("live"), r, 200, "alive")
              ELSE Answered(NewReq("live"), r, 403, "CORS_ERROR"))]
    /\ UNCHANGED <<configVars, storeVars, procVars, conn, initDoc, signalled,
                   trigger>>

ready_health_js_imported == [status |-> 200, code |-> "ready"]

\* routes/health.js, GET /ready: getDatabase is not imported by the module,
\* so the call throws a ReferenceError, which the catch block answers
ready_health_js == [status |-> 503, code |-> "not_ready"]

ready_part_012_always == [status |-> 200, code |-> "ready"]

\* the other build, GET /ready: the result of testConnection decides
ready_part_012 ==
    IF db /\ storeUp
    THEN [status |-> 200, code |-> "ready"]
    ELSE [status |-> 503, code |-> "not_ready"]

\* GET /api/health/ready arrives; routes/health.js answers in the same turn,
\* the other build awaits testConnection
ready_begin(r) ==
    /\ Arrives(r)
    /\ \E origin \in Origins :
         /\ Inject(~corsAllows(origin))
         /\ req' = [req EXCEPT ![r] = From(origin,
              IF ~corsAllows(origin)
              THEN Answered(NewReq("ready"), r, 403, "CORS_ERROR")
              ELSE IF healthBuild = "health_js"
              THEN Answered(NewReq("ready"), r, ready_health_js.status,
                            ready_health_js.code)
              ELSE [NewReq("ready") EXCEPT !.pc = "testConnection"])]
    /\ UNCHANGED <<configVars, storeVars, procVars, conn, initDoc, signalled,
                   trigger>>

\* testConnection settles and the probe is answered
ready_resume(r) ==
    /\ Alive
    /\ req[r].pc = "testConnection"
    /\ Respond(r, ready_part_012.status, ready_part_012.code)
    /\ UNCHANGED <<configVars, storeVars, procVars, conn, histVars>>

(***************************************************************************)
(* The lifecycle specification: the process from its start to its exit     *)
(***************************************************************************)
LifeDocs == {d \in InitDocs : /\ Has(d, "credits") /\ d.credits = 1
                              /\ Has(d, "status") /\ d.status = "active"
                              /\ ~Has(d, "totalRequests")}

Init ==
    /\ nodeEnv \in {"development", "production"}
    /\ appBuild \in {"app_js", "part_008"}
    /\ healthBuild \in {"health_js", "part_012"}
    /\ missingEnvVars \in SUBSET REQUIRED_ENV_VARS
    /\ runtime \in Runtimes
    /\ userDoc \in LifeDocs
    /\ InitStore
    /\ InitUtils
    /\ mainPc = "load"
    /\ db = FALSE
    /\ listening = FALSE
    /\ isShuttingDown = FALSE
    /\ closing = FALSE
    /\ forceTimeout = FALSE
    /\ exitCode = -1
    /\ exitCause = "none"
    /\ reported = {}
    /\ conn = [r \in Slots |-> "none"]
    /\ req = [r \in Slots |-> NoReq]

Next ==
    \/ loadModules
    \/ validateEnvironment
    \/ initializeDatabase
    \/ startServer
    \/ killedBySignal
    \/ gracefulShutdown_app_js
    \/ gracefulShutdown_part_008
    \/ uncaughtFault_app_js
    \/ uncaughtException_part_008
    \/ unhandledRejection_part_008
    \/ serverClosed
    \/ forceShutdown
    \/ StoreGoesDown
    \/ StoreComesUp
    \/ \E r \in Slots :
         \/ Connect(r)
         \/ ConnEnd(r)
         \/ keepAlive(r)
         \/ live(r)
         \/ ready_begin(r)
         \/ ready_resume(r)
         \/ ChatStep(r)

Spec == Init /\ [][Next]_vars

\* what the runtime guarantees: an armed timer fires, the close callback
\* runs once the last connection is gone, a pending store or AI call
\* settles (each has a deadline), and a connection that stays idle is ended
\* by the keep-alive timeout
Fairness ==
    /\ WF_vars(forceShutdown)
    /\ WF_vars(serverClosed)
    /\ \A r \in Slots : /\ WF_vars(ConnEnd(r))
                        /\ WF_vars(ready_resume(r))
                        /\ WF_vars(verifyApiKey_resume(r))
                        /\ WF_vars(generateAIResponse_resume(r))
                        /\ WF_vars(deductCredits_get(r))
                        /\ WF_vars(deductCredits_commit(r))
                        /\ WF_vars(logUserRequest_resume(r))

SpecLive == Spec /\ Fairness

(***************************************************************************)
(* routes/health.js: /detailed, /choreo and the paths without a route      *)
(***************************************************************************)
\* testConnection catches its own failure and returns false
testConnection == db /\ storeUp

\* results.status after the AI check: the database check never throws, so
\* the status is still 'healthy' when the AI result is looked at
detailedAfterAi(ai) ==
    IF ai # "healthy" THEN "degraded" ELSE "healthy"

\* checks.system.status is the literal 'healthy': the memory figures are
\* reported, not classified
detailedSystemCheck(heapUsed) == "healthy"

\* the number of checks whose status is 'unhealthy'
unhealthyChecks(database, ai, system) ==
    Cardinality({i \in 1..3 : <<database, ai, system>>[i] = "unhealthy"})

\* the final results.status of /detailed
detailedStatus(database, ai, heapUsed) ==
    LET n == unhealthyChecks(database, ai, detailedSystemCheck(heapUsed))
    IN  IF n > 0
        THEN IF n = 3 THEN "unhealthy" ELSE "degraded"
        ELSE detailedAfterAi(ai)

\* healthy -> 200, degraded -> 207, anything else -> 503
healthStatusCode(status) ==
    IF status = "healthy" THEN 200
    ELSE IF status = "degraded" THEN 207
    ELSE 503

\* GET /api/health/detailed passes the CORS middleware and awaits
\* testConnection
detailed_begin(r) ==
    /\ Arrives(r)
    /\ \E origin \in Origins :
         /\ Inject(~corsAllows(origin))
         /\ req' = [req EXCEPT ![r] = From(origin,
              IF ~corsAllows(origin)
              THEN Answered(NewReq("detailed"), r, 403, "CORS_ERROR")
              ELSE [NewReq("detailed") EXCEPT !.pc = "detailedDb"])]
    /\ UNCHANGED <<configVars, storeVars, procVars, conn, initDoc, signalled,
                   trigger>>

\* testConnection settles; checkServiceHealth is awaited next
detailed_database(r) ==
    /\ Alive
    /\ req[r].pc = "detailedDb"
    /\ req' = [req EXCEPT ![r] = [@ EXCEPT
                 !.pc = "detailedAi",
                 !.database = IF testConnection THEN "healthy" ELSE "unhealthy"]]
    /\ UNCHANGED <<configVars, storeVars, procVars, conn, histVars>>

\* checkServiceHealth settles (it never throws), the memory is sampled and
\* the composite status is answered
detailed_ai_service(r) ==
    /\ Alive
    /\ req[r].pc = "detailedAi"
    /\ \E ai \in {"healthy", "unhealthy"}, m \in MemorySamples :
         /\ Inject(ai = "unhealthy")
         /\ LET st == detailedStatus(req[r].database, ai, m)
            IN  req' = [req EXCEPT ![r] =
                   [Answered(req[r], r, healthStatusCode(st), st)
                       EXCEPT !.ai_service = ai, !.heapUsed = m]]
    /\ UNCHANGED <<configVars, storeVars, procVars, conn, initDoc, signalled,
                   trigger>>

\* the status that /choreo derives from the memory classification
choreoStatus(heapUsed) ==
    IF getMemoryStatus(heapUsed) = "critical" THEN "unhealthy"
    ELSE IF getMemoryStatus(heapUsed) = "warning" THEN "degraded"
    ELSE "healthy"

\* notFoundHandler: a path that no route matches
notFound == [status |-> 404, code |-> "ROUTE_NOT_FOUND"]

\* GET /api/health/choreo: routes/health.js answers from the memory status;
\* the other build of the router has no such route
choreo(r) ==
    /\ Arrives(r)
    /\ \E origin \in Origins, m \in MemorySamples :
         /\ Inject(~corsAllows(origin))
         /\ req' = [req EXCEPT ![r] = From(origin,
              IF ~corsAllows(origin)
              THEN Answered(NewReq("choreo"), r, 403, "CORS_ERROR")
              ELSE IF healthBuild = "health_js"
              THEN [Answered(NewReq("choreo"), r,
                             healthStatusCode(choreoStatus(m)), choreoStatus(m))
                       EXCEPT !.heapUsed = m, !.memory = getMemoryStatus(m)]
              ELSE Answered(NewReq("choreo"), r, notFound.status, notFound.code))]
    /\ UNCHANGED <<configVars, storeVars, procVars, conn, initDoc, signalled,
                   trigger>>

\* the paths that the health router of either build serves
healthRoutes ==
    IF healthBuild = "health_js"
    THEN {"/", "/detailed", "/ready", "/live", "/choreo"}
    ELSE {"/", "/detailed", "/ready", "/live"}

\* GET /api/health/debug: no route of the router matches, so the request
\* falls through to notFoundHandler
debug(r) ==
    /\ Arrives(r)
    /\ \E origin \in Origins :
         /\ Inject(~corsAllows(origin))
         /\ req' = [req EXCEPT ![r] = From(origin,
              IF ~corsAllows(origin)
              THEN Answered(NewReq("debug"), r, 403, "CORS_ERROR")
              ELSE IF "/debug" \in healthRoutes
              THEN Answered(NewReq("debug"), r, 200, "debug_ok")
              ELSE Answered(NewReq("debug"), r, notFound.status, notFound.code))]
    /\ UNCHANGED <<configVars, storeVars, procVars, conn, initDoc, signalled,
                   trigger>>

(***************************************************************************)
(* routes/stats.js: GET /usage                                             *)
(***************************************************************************)
LimitChars == {"-", "0", "7", "a"}

\* the values of the query parameter 'limit'
LimitStrings == UNION {[1..n -> LimitChars] : n \in 0..MaxLimitLen}

isDigit(c) == c \in {"0", "7"}

digitValue(c) == IF c = "7" THEN 7 ELSE 0

RECURSIVE leadingDigits(_)
leadingDigits(s) ==
    IF s = <<>> \/ ~isDigit(Head(s)) THEN <<>>
    ELSE <<Head(s)>> \o leadingDigits(Tail(s))

RECURSIVE digitsValue(_, _)
digitsValue(s, acc) ==
    IF s = <<>> THEN acc
    ELSE digitsValue(Tail(s), acc * 10 + digitValue(Head(s)))

NaN == [nan |-> TRUE, val |-> 0]

\* parseInt: an optional sign, then the longest run of digits; NaN when
\* there is no digit
parseInt(s) ==
    LET neg  == s # <<>> /\ Head(s) = "-"
        body == IF neg THEN Tail(s) ELSE s
        ds   == leadingDigits(body)
    IN  IF ds = <<>> THEN NaN
        ELSE [nan |-> FALSE,
              val |-> IF neg THEN 0 - digitsValue(ds, 0) ELSE digitsValue(ds, 0)]

\* x || d: NaN and 0 are falsy
orDefault(x, d) == IF x.nan \/ x.val = 0 THEN d ELSE x.val

\* const { limit = 10 } = req.query;
\* Math.min(parseInt(limit) || 10, 50)
parsedLimit(given, s) ==
    LET n == orDefault(IF given THEN parseInt(s)
                       ELSE [nan |-> FALSE, val |-> 10], 10)
    IN  IF n < 50 THEN n ELSE 50

\* a GET /api/stats/usage with header h and query q
UsageReq(h, given, q) ==
    [NewReq("usage") EXCEPT !.header = h, !.limitGiven = given, !.limit = q]

\* the synchronous part: CORS, the header checks of verifyApiKey, then the
\* users query is issued
usage_begin(r) ==
    /\ Arrives(r)
    /\ \E origin \in Origins, h \in Headers, given \in BOOLEAN,
          q \in LimitStrings :
         /\ ~given => q = <<>>
         /\ Inject(~corsAllows(origin) \/ h # "valid")
         /\ req' = [req EXCEPT ![r] = From(origin,
              IF ~corsAllows(origin)
              THEN Answered(NewReq("usage"), r, 403, "CORS_ERROR")
              ELSE IF headerError(h) # ""
              THEN Answered(NewReq("usage"), r, 401, headerError(h))
              ELSE IF ~db
              THEN Answered(NewReq("usage"), r, 500, "AUTH_ERROR")
              ELSE [UsageReq(h, given, q) EXCEPT !.pc =
                       IF h = "valid" THEN "usageAuth" ELSE "usageAuthUnknown"])]
    /\ UNCHANGED <<configVars, storeVars, procVars, conn, initDoc, signalled,
                   trigger>>

\* the record of a usage request once it is answered
UsageAnswered(r, s, c) ==
    [Answered(req[r], r, s, c) EXCEPT !.limitGiven = FALSE, !.limit = <<>>]

\* the users query of verifyApiKey resolves; on success the handler parses
\* the limit (req.query is not read again) and awaits getUserStats
usage_verifyApiKey(r) ==
    /\ Alive
    /\ req[r].pc \in {"usageAuth", "usageAuthUnknown"}
    /\ req' = [req EXCEPT ![r] =
         IF ~storeUp
         THEN UsageAnswered(r, 503, "SERVICE_UNAVAILABLE")
         ELSE IF req[r].pc = "usageAuthUnknown" \/ ~userExists
         THEN UsageAnswered(r, 401, "INVALID_API_KEY")
         ELSE IF authSuspended(userDoc)
         THEN UsageAnswered(r, 403, "ACCOUNT_SUSPENDED")
         ELSE IF authInsufficient(userDoc)
         THEN UsageAnswered(r, 403, "INSUFFICIENT_CREDITS")
         ELSE [@ EXCEPT !.pc = "usageStats", !.admitted = TRUE,
                  !.parsedLimit = parsedLimit(req[r].limitGiven, req[r].limit),
                  !.limitGiven = FALSE, !.limit = <<>>]]
    /\ UNCHANGED <<configVars, storeVars, procVars, conn, histVars>>

\* getUserStats settles; getUserRequestHistory(uid, parsedLimit) is awaited
getUserStats(r) ==
    /\ Alive
    /\ req[r].pc = "usageStats"
    /\ req' = [req EXCEPT ![r] =
         IF ~storeUp
         THEN UsageAnswered(r, 500, "USER_STATS_ERROR")
         ELSE IF ~userExists
         THEN UsageAnswered(r, 404, "USER_NOT_FOUND")
         ELSE [@ EXCEPT !.pc = "usageHistory"]]
    /\ UNCHANGED <<configVars, storeVars, procVars, conn, histVars>>

\* the query .limit(parsedLimit).get() settles: the store answers, or the
\* query fails (a limit below 1 may be refused by the store)
getUserRequestHistory(r) ==
    /\ Alive
    /\ req[r].pc = "usageHistory"
    /\ \E refused \in BOOLEAN :
         /\ refused => req[r].parsedLimit < 1
         /\ req' = [req EXCEPT ![r] =
              IF ~storeUp \/ refused
              THEN UsageAnswered(r, 500, "REQUEST_HISTORY_ERROR")
              ELSE UsageAnswered(r, 200, "OK")]
    /\ UNCHANGED <<configVars, storeVars, procVars, conn, histVars>>

(***************************************************************************)
(* services/userService.js: updateUserProfile                              *)
(***************************************************************************)
allowedFields == {"email", "displayName", "preferences", "settings"}

\* the updateData that a caller may hand over
ProfileData ==
    {[email |-> "new"], [credits |-> MaxCredits],
     [email |-> "new", credits |-> MaxCredits]}

\* the allowed fields of updateData that are defined
sanitizedData(updateData) ==
    [f \in (DOMAIN updateData) \cap allowedFields |-> updateData[f]]

\* updateUserProfile: userRef.update(sanitizedData) with updatedAt; without
\* an allowed field it throws before any write
updateUserProfile ==
    /\ Alive
    /\ mainPc = "listening"
    /\ db /\ storeUp /\ userExists
    /\ docVersion < MaxUpdates
    /\ \E updateData \in ProfileData :
         /\ DOMAIN sanitizedData(updateData) # {}
         /\ userDoc' = Update(userDoc,
                [updatedAt |-> serverTimestamp] @@ sanitizedData(updateData))
    /\ docVersion' = docVersion + 1
    /\ UNCHANGED <<configVars, userExists, requests, storeUp, procVars,
                   reqVars, histVars>>

(***************************************************************************)
(* The service specification: a listening server and its other routes      *)
(***************************************************************************)
InitService ==
    /\ nodeEnv \in {"development", "production"}
    /\ appBuild = "app_js"
    /\ healthBuild \in {"health_js", "part_012"}
    /\ missingEnvVars = {}
    /\ runtime = "node20"
    /\ userDoc \in LifeDocs
    /\ InitStore
    /\ InitUtils
    /\ mainPc = "listening"
    /\ db = TRUE
    /\ listening = TRUE
    /\ isShuttingDown = FALSE
    /\ closing = FALSE
    /\ forceTimeout = FALSE
    /\ exitCode = -1
    /\ exitCause = "none"
    /\ reported = {}
    /\ conn = [r \in Slots |-> "open"]
    /\ req = [r \in Slots |-> NoReq]

NextService ==
    \/ StoreGoesDown
    \/ StoreComesUp
    \/ updateUserProfile
    \/ \E r \in Slots :
         \/ keepAlive(r)
         \/ detailed_begin(r)
         \/ detailed_database(r)
         \/ detailed_ai_service(r)
         \/ choreo(r)
         \/ debug(r)
         \/ usage_begin(r)
         \/ usage_verifyApiKey(r)
         \/ getUserStats(r)
         \/ getUserRequestHistory(r)

SpecService == InitService /\ [][NextService]_vars

(***************************************************************************)
(* The monitor specification: main from the monitor's setup on, with the   *)
(* timer, the logger and the health requests                               *)
(***************************************************************************)
LogLevelSettings == Severities \cup {"unset"}

InitMonitor ==
    /\ nodeEnv = "production"
    /\ appBuild \in {"app_js", "part_008"}
    /\ healthBuild = "health_js"
    /\ missingEnvVars = {}
    /\ runtime = "node20"
    /\ LOG_LEVEL \in LogLevelSettings
    /\ DISABLE_MEMORY_MONITORING \in {"true", "unset"}
    /\ gcAvailable \in BOOLEAN
    /\ monitoring = FALSE
    /\ sampled = 0
    /\ gcRequests = 0
    /\ lastLog = [severity |-> "none", emitted |-> FALSE]
    /\ userDoc \in LifeDocs
    /\ InitStore
    /\ mainPc = "dbReady"
    /\ db = TRUE
    /\ listening = FALSE
    /\ isShuttingDown = FALSE
    /\ closing = FALSE
    /\ forceTimeout = FALSE
    /\ exitCode = -1
    /\ exitCause = "none"
    /\ reported = {}
    /\ conn = [r \in Slots |-> "none"]
    /\ req = [r \in Slots |-> NoReq]

NextMonitor ==
    \/ startServer
    \/ checkMemoryUsage_tick
    \/ logger_call
    \/ \E r \in Slots :
         \/ Connect(r)
         \/ keepAlive(r)
         \/ live(r)
         \/ choreo(r)

SpecMonitor == InitMonitor /\ [][NextMonitor]_vars

(***************************************************************************)
(* Properties of the ledger                                                *)
(***************************************************************************)
Rs == DOMAIN req

\* deductCredits has returned the updated account to request r
Debited(r) == req[r].pc = "log" \/ req[r].status = 200

Finished(r) == req[r].pc \in {"done", "lost"}

\* C1: the stored balance is never negative, and no balance that a request
\* has read, computed or reported is negative, whatever the interleaving of
\* the debit attempts
C1_CreditsNeverNegative ==
    /\ Has(userDoc, "credits") => userDoc.credits >= 0
    /\ \A r \in Rs : req[r].newCredits >= 0 /\ req[r].credits_remaining >= 0

\* two debit attempts overlap: one has committed the last credit while the
\* other still holds the write it computed from the old balance
C1_Witness ==
    \E r1, r2 \in Rs :
        /\ req[r1].pc = "log"
        /\ req[r2].pc = "txCommit"
        /\ OrZero(userDoc, "credits") = 0

\* C2: with one credit on an active account, concurrent metered calls whose
\* generation calls all succeed end with exactly one success and every other
\* call refused with INSUFFICIENT_CREDITS (403); the final balance is 0
C2_OneSuccessOnOneCredit ==
    ( /\ Has(initDoc, "credits") /\ initDoc.credits = 1
      /\ ~authSuspended(initDoc)
      /\ faults = 0
      /\ \A r \in Rs : Finished(r) )
    => /\ Cardinality({r \in Rs : req[r].status = 200}) = 1
       /\ \A r \in Rs : req[r].status # 200 =>
              req[r].status = 403 /\ req[r].code = "INSUFFICIENT_CREDITS"
       /\ userDoc.credits = 0

\* all calls are over: one succeeded, one was refused by the transaction
\* after its generation call, one was refused at admission
C2_Witness ==
    /\ Has(initDoc, "credits") /\ initDoc.credits = 1
    /\ faults = 0
    /\ \A r \in Rs : Finished(r)
    /\ \E r \in Rs : req[r].status = 200
    /\ \E r \in Rs : req[r].code = "INSUFFICIENT_CREDITS" /\ req[r].generated
    /\ \E r \in Rs : req[r].code = "INSUFFICIENT_CREDITS" /\ ~req[r].admitted

\* C3: a debit is all or nothing: a step that changes the account is a
\* commit that lowers credits by the cost, adds one to totalRequests and
\* sets lastUsed; a debit attempt that fails leaves the account as it was
C3_DebitAllOrNothing ==
    [][ /\ \A r \in Rs :
              (req[r].pc = "txCommit" /\ req'[r].pc = "log") =>
                  /\ userDoc'.credits = OrZero(userDoc, "credits") - creditsToDeduct
                  /\ userDoc'.totalRequests = OrZero(userDoc, "totalRequests") + 1
                  /\ Has(userDoc', "lastUsed")
                  /\ userDoc'.lastUsed > OrZero(userDoc, "lastUsed")
        /\ \A r \in Rs :
              (req[r].pc \in {"txGet", "txCommit"} /\ Finished(r)')
                  => userDoc' = userDoc /\ docVersion' = docVersion
        /\ userDoc' # userDoc =>
              \E r \in Rs : req[r].pc = "txCommit" /\ req'[r].pc = "log"
      ]_vars

\* one debit was committed and another failed on a store error
C3_Witness ==
    /\ \E r \in Rs : req[r].status = 200
    /\ \E r \in Rs : req[r].code = "CREDIT_DEDUCTION_ERROR"
    /\ userDoc.lastUsed > 0

\* C4: totalRequests is its initial value plus the number of debits that
\* succeeded (failed debits add nothing), and it never decreases
C4_TotalRequestsCountsDebits ==
    /\ [](OrZero(userDoc, "totalRequests") =
             OrZero(initDoc, "totalRequests")
               + Cardinality({r \in Rs : Debited(r)}))
    /\ [][OrZero(userDoc', "totalRequests") >= OrZero(userDoc, "totalRequests")]_vars

\* two debits succeeded and one was refused by the transaction
C4_Witness ==
    /\ Cardinality({r \in Rs : Debited(r)}) = 2
    /\ \E r \in Rs : /\ req[r].generated /\ Finished(r)
                     /\ req[r].code = "INSUFFICIENT_CREDITS"
    /\ OrZero(userDoc, "totalRequests") = 2

(***************************************************************************)
(* Properties of the lifecycle                                             *)
(***************************************************************************)
\* request r gets its answer in this step
AnsweredNow(r) == req[r].status = 0 /\ req'[r].status # 0

InFlight(r) == req[r].pc \notin {"none", "done", "lost"}

C7_InFlightCallCompletes ==
    [][ \A r \in Rs :
          (req[r].kind = "chat" /\ req[r].admitted /\ ~req[r].afterSignal
             /\ InFlight(r) /\ conn[r] = "open" /\ Alive
             /\ (DeliveredNow => trigger'.name = "SIGTERM")
             /\ exitCause' # "fault"
             /\ exitCause' # "timeout")
              => (conn'[r] = "open" /\ Alive') ]_vars

\* C8: every answer to GET /api/health/live is 200 with status 'alive'
C8_LiveAlways200 ==
    \A r \in Rs :
        (req[r].kind = "live" /\ req[r].status # 0)
            => (req[r].status = 200 /\ req[r].code = "alive")

C10_ReadyWhenStarted ==
    [][ \A r \in Rs :
          (AnsweredNow(r) /\ req'[r].kind = "ready"
             /\ req'[r].code # "CORS_ERROR"
             /\ mainPc = "listening" /\ db /\ ~signalled /\ storeUp)
              => (req'[r].status = 200 /\ req'[r].code = "ready") ]_vars

\* C11: a termination signal delivered while the process is already
\* draining is ignored: the server, the timer, the connections and the exit
\* state are left as they were
C11_SecondSignalIgnored ==
    [][ (DeliveredNow /\ trigger'.name = "SIGTERM" /\ Alive /\ closing)
            => UNCHANGED <<procVars, conn>> ]_vars

\* C12: after a termination signal in the listening state the process
\* eventually stops: with exit code 0 when the close callback ran, with a
\* non-zero code when the drain timeout fired
C12_EventuallyStops ==
    /\ (signalled /\ mainPc = "listening") ~> ~Alive
    /\ [](exitCause = "closed" => exitCode = 0)
    /\ [](exitCause = "timeout" => exitCode # 0)

\* C13: with a required variable absent the listener is never bound: the
\* process gets no further than the validation, the database is not
\* initialised, no connection is accepted, and when the process has ended
\* its exit code is not 0
C13_NoListenWithMissingConfig ==
    missingEnvVars # {} =>
        /\ mainPc \in {"load", "init", "exited"}
        /\ ~listening
        /\ ~db
        /\ \A r \in Rs : conn[r] = "none"
        /\ ~Alive => exitCode # 0

\* the validation found a variable missing and the process exited with 1
C13_Witness ==
    /\ missingEnvVars # {}
    /\ exitCause = "config"
    /\ exitCode = 1

\* C14: a process that ended because of missing configuration has emitted
\* the report that names the missing variables
C14_MissingReported ==
    (~Alive /\ missingEnvVars # {} /\ exitCause # "killed")
        => reported = missingEnvVars

\* C15: an uncaught exception or unhandled rejection delivered while the
\* process is ready leaves it serving in production mode and starts the
\* drain in every other mode
C15_FaultHandledByMode ==
    [][ ( /\ DeliveredNow
          /\ trigger'.name \in {"uncaughtException", "unhandledRejection"}
          /\ mainPc = "listening" /\ Alive /\ listening /\ ~closing )
        => IF nodeEnv = "production"
           THEN Alive' /\ listening' /\ ~closing'
           ELSE Alive' /\ closing' /\ ~listening' ]_vars

(***************************************************************************)
(* Properties of the authentication                                        *)
(***************************************************************************)
\* the account is marked suspended
StatusSuspended(doc) == Has(doc, "status") /\ doc.status = "suspended"

\* C16: for a suspended account no request is admitted, reaches the
\* generation or the debit, or creates a record, and the account is left as
\* it was; a request with its key whose lookup succeeds is answered 403
\* ACCOUNT_SUSPENDED whatever the balance, zero, positive or absent
C16_SuspendedAlwaysRefused ==
    /\ [](StatusSuspended(initDoc) =>
            /\ userDoc = initDoc
            /\ requests = EmptyBag
            /\ \A r \in Rs : /\ ~req[r].admitted
                             /\ ~req[r].generated
                             /\ req[r].pc \notin {"gen", "txGet", "txCommit", "log"}
                             /\ req[r].status # 200)
    /\ [][ \A r \in Rs :
             (StatusSuspended(userDoc) /\ req[r].pc = "auth" /\ AnsweredNow(r)
                /\ storeUp /\ userExists)
             => (req'[r].status = 403 /\ req'[r].code = "ACCOUNT_SUSPENDED")
         ]_vars

\* suspended accounts with a positive, a zero and an absent balance exist
\* among the initial states; here one with credits left was refused
C16_Witness ==
    /\ StatusSuspended(initDoc)
    /\ Has(initDoc, "credits") /\ initDoc.credits > 0
    /\ \E r \in Rs : req[r].code = "ACCOUNT_SUSPENDED" /\ req[r].status = 403

BadHeaders == {"missing", "malformed", "unknown"}

StartsEmpty ==
    /\ Has(initDoc, "credits") /\ initDoc.credits = 0
    /\ ~StatusSuspended(initDoc)

\* C18: for an active account with 0 credits no generation call is made,
\* no record is created and the account (credits, totalRequests) stays as
\* it was; a metered call with its key whose lookup succeeds is answered
\* 403 INSUFFICIENT_CREDITS
C18_NoCreditsRefused ==
    /\ [](StartsEmpty =>
            /\ userDoc = initDoc
            /\ requests = EmptyBag
            /\ \A r \in Rs : /\ ~req[r].generated
                             /\ ~req[r].admitted
                             /\ req[r].status # 200)
    /\ [][ \A r \in Rs :
             (StartsEmpty /\ req[r].pc = "auth" /\ AnsweredNow(r)
                /\ storeUp /\ userExists)
             => (req'[r].status = 403 /\ req'[r].code = "INSUFFICIENT_CREDITS")
         ]_vars

\* a call on the empty account was refused before the generation
C18_Witness ==
    /\ StartsEmpty
    /\ \E r \in Rs : /\ req[r].code = "INSUFFICIENT_CREDITS"
                     /\ req[r].status = 403
                     /\ req[r].header = "valid"
                     /\ ~req[r].generated

(***************************************************************************)
(* Properties of a metered call                                            *)
(***************************************************************************)
\* request r is the only call of the run and has been answered
OnlyCall(r) ==
    /\ req[r].pc = "done"
    /\ \A q \in Rs : q # r => req[q].kind = "none"

\* C19: on an active account with c >= 1 credits and totalRequests t, a
\* single metered call without a concurrent call or a failure is answered
\* 200 with credits_remaining = c - 1, leaves credits c - 1 and
\* totalRequests t + 1, and creates exactly one record
C19_SingleCallDebitsOne ==
    \A r \in Rs :
        ( /\ OnlyCall(r)
          /\ faults = 0
          /\ ~StatusSuspended(initDoc)
          /\ Has(initDoc, "credits") /\ initDoc.credits >= 1 )
        => /\ req[r].status = 200
           /\ req[r].credits_remaining = initDoc.credits - 1
           /\ userDoc.credits = initDoc.credits - 1
           /\ userDoc.totalRequests = OrZero(initDoc, "totalRequests") + 1
           /\ req[r].request_id
           /\ requests = SetToBag({r})

\* the single call succeeded on an account that had made calls before
C19_Witness ==
    \E r \in Rs :
        /\ OnlyCall(r)
        /\ faults = 0
        /\ req[r].status = 200
        /\ initDoc.credits = MaxCredits
        /\ Has(initDoc, "totalRequests") /\ initDoc.totalRequests >= 1

\* C20: when the audit-log write fails after the debit, the call is still
\* answered 200 with a null record id and the credits_remaining of its
\* debit, no record is created and the debited account is left as the
\* debit wrote it
C20_LogFailureSwallowed ==
    [][ \A r \in Rs :
          (req[r].pc = "log" /\ req'[r].pc # "log" /\ ~storeUp)
          => /\ req'[r].status = 200
             /\ ~req'[r].request_id
             /\ req'[r].credits_remaining = req[r].credits_remaining
             /\ req'[r].credits_remaining >= OrZero(userDoc, "credits")
             /\ requests' = requests
             /\ userDoc' = userDoc
             /\ docVersion' = docVersion
      ]_vars

\* a call was answered 200 without a record id after its debit was written
C20_Witness ==
    \E r \in Rs :
        /\ req[r].status = 200
        /\ ~req[r].request_id
        /\ ~BagIn(r, requests)
        /\ OrZero(userDoc, "credits") < OrZero(initDoc, "credits")
        /\ req[r].credits_remaining = OrZero(userDoc, "credits")

(***************************************************************************)
(* Properties of the request pipeline                                      *)
(***************************************************************************)
\* C21: the audit-log write never holds back the caller: whenever the audit
\* write of a request is still pending after its debit, the 200 response of
\* that request has already been sent
C21_ResponseNotHeldByAuditWrite ==
    \A r \in Rs : req[r].pc = "log" => req[r].status = 200

GenFailureCodes == {"AI_TIMEOUT", "AI_SERVICE_UNAVAILABLE", "AI_SERVICE_ERROR"}

\* C25: every failure of the generation call is answered 503 or 408 and no
\* other status
C25_GenFailureIs503or408 ==
    \A r \in Rs :
        (req[r].generated /\ req[r].code \in GenFailureCodes)
            => req[r].status \in {503, 408}

DebitFailureCodes ==
    {"INSUFFICIENT_CREDITS", "USER_NOT_FOUND", "CREDIT_DEDUCTION_ERROR"}

\* the debit of request r failed after its generation call had succeeded
DebitFailed(r) ==
    /\ req[r].generated
    /\ Finished(r)
    /\ req[r].code \in DebitFailureCodes

\* C26: when the debit fails after a successful generation call, the
\* request leaves no audit record, is not among the debits of the account,
\* and is answered 403 or 503
C26_DebitFailureIs403or503 ==
    \A r \in Rs :
        DebitFailed(r) =>
            /\ ~BagIn(r, requests)
            /\ ~req[r].request_id
            /\ req[r].status \in {403, 503}

\* C29: once the shutting-down flag is set, no step clears it or makes the
\* server listen again, and the flag changes only in a step that delivers a
\* signal or a fault to the shutdown handler of the drain-timeout build
C29_LifecycleOnlyAdvances ==
    [][/\ isShuttingDown => (isShuttingDown' /\ ~listening')
       /\ (isShuttingDown' # isShuttingDown) =>
              (DeliveredNow /\ appBuild = "part_008" /\ mainPc = "listening")
      ]_vars

\* the process went on after the flag was set: a request that arrived after
\* the signal has been answered while the flag is up
C29_Witness ==
    /\ isShuttingDown
    /\ Alive
    /\ ~listening
    /\ \E r \in Rs : req[r].afterSignal /\ req[r].status # 0

\* C30: a metered request goes through authentication, generation, debit,
\* audit record and response in that order, each step starting only after
\* the one before it succeeded: the account changes only in the commit step
\* of a request whose generation call succeeded and that has failed nowhere,
\* an audit record is written only for a request whose debit has committed,
\* and 200 is sent only from the audit step
C30_StepsInOrder ==
    [][\A r \in Rs :
         /\ (req'[r].pc = "gen" /\ req[r].pc # "gen") =>
                (req[r].pc = "auth" /\ req'[r].admitted)
         /\ (req'[r].pc = "txGet" /\ req[r].pc # "txGet") =>
                (req[r].pc \in {"gen", "txCommit"} /\ req[r].generated)
         /\ (req'[r].pc = "txCommit" /\ req[r].pc # "txCommit") =>
                req[r].pc = "txGet"
         /\ (req'[r].pc = "log" /\ req[r].pc # "log") =>
                (req[r].pc = "txCommit" /\ userDoc' # userDoc)
         /\ (userDoc' # userDoc) =>
                (\E q \in Rs : /\ req[q].pc = "txCommit" /\ req'[q].pc = "log"
                               /\ req[q].generated /\ req[q].status = 0
                               /\ req[q].code = "")
         /\ (CopiesIn(r, requests') > CopiesIn(r, requests)) => req[r].pc = "log"
         /\ (req'[r].status = 200 /\ req[r].status = 0 /\ req'[r].kind = "chat")
                => req[r].pc = "log"
      ]_vars

\* a request has gone through all five steps while another was refused for
\* its message or failed in generation without a debit
C30_Witness ==
    \E r, q \in Rs :
        /\ req[r].status = 200 /\ BagIn(r, requests)
        /\ OrZero(userDoc, "credits") = OrZero(initDoc, "credits") - 1
        /\ req[q].code \in GenFailureCodes \cup {"INVALID_MESSAGE"}

(***************************************************************************)
(* Properties of the other routes and of the account record                *)
(***************************************************************************)
\* request r was answered by its route (not refused by the CORS middleware)
Served(r, kind) ==
    /\ req[r].kind = kind
    /\ Finished(r)
    /\ req[r].code # "CORS_ERROR"

\* C22: on GET /health/detailed a failed database or AI-service check makes
\* the composite status 'unhealthy' with HTTP 503; 207 goes only with
\* 'degraded' and 200 only with 'healthy'
C22_DependencyFailureIsUnhealthy ==
    \A r \in Rs :
        Served(r, "detailed") =>
            /\ (req[r].database = "unhealthy" \/ req[r].ai_service = "unhealthy")
                   => (req[r].code = "unhealthy" /\ req[r].status = 503)
            /\ req[r].status = 207 => req[r].code = "degraded"
            /\ req[r].status = 200 => req[r].code = "healthy"

\* C23: a detailed health report whose memory sample is above the CRITICAL
\* threshold has the composite status 'degraded' or 'unhealthy', never
\* 'healthy'
C23_CriticalMemoryNotHealthy ==
    \A r \in Rs :
        (Served(r, "detailed") /\ req[r].heapUsed > MEMORY_THRESHOLDS_CRITICAL)
            => req[r].code \in {"degraded", "unhealthy"}

\* C24: the account document changes only in the commit step of the debit
\* transaction; no other operation writes a field of it
C24_OnlyDebitWritesAccount ==
    [][(userDoc' # userDoc) =>
          (\E r \in Rs : req[r].pc = "txCommit" /\ req'[r].pc = "log")
      ]_vars

\* C27: GET /api/health/debug is answered 200 with status 'debug_ok', never
\* by the not-found handler
C27_DebugAnswered200 ==
    \A r \in Rs :
        Served(r, "debug") => (req[r].status = 200 /\ req[r].code = "debug_ok")

\* C28: the number of history records that GET /api/stats/usage requests
\* from the store is between 1 and 50 for every value of 'limit', and it is
\* 10 when the parameter is absent or cannot be parsed
C28_LimitWithin1And50 ==
    /\ [](\A r \in Rs :
            req[r].pc = "usageHistory" => req[r].parsedLimit \in 1..50)
    /\ [][\A r \in Rs :
            (/\ req[r].pc = "usageAuth" /\ req'[r].pc = "usageStats"
             /\ (~req[r].limitGiven \/ parseInt(req[r].limit).nan))
                => req'[r].parsedLimit = 10
         ]_vars

(***************************************************************************)
(* Properties of the audit log and of the reported balance                 *)
(***************************************************************************)
\* C31: the records of the account are never more than its committed
\* debits, a committed debit has at most one record and a request without a
\* committed debit has none, and a record once written is never removed
C31_RecordsWithinDebits ==
    /\ [](/\ BagCardinality(requests) <= Cardinality({r \in Rs : Debited(r)})
          /\ \A r \in Rs :
                CopiesIn(r, requests) <= (IF Debited(r) THEN 1 ELSE 0))
    /\ [][\A r \in Rs : CopiesIn(r, requests') >= CopiesIn(r, requests)]_vars

\* two debits were committed; the record of one was written, the write of
\* the other failed
C31_Witness ==
    /\ Cardinality({r \in Rs : req[r].status = 200}) = 2
    /\ BagCardinality(requests) = 1
    /\ \E r \in Rs : req[r].status = 200 /\ ~req[r].request_id

\* C35: the credits_remaining of a successful call is the balance right
\* after the commit of its own debit, so two successful calls on the account
\* never report the same value, and there are never more successful calls
\* than the account had credits at the start
C35_RemainingIsOwnPostDebitBalance ==
    /\ [][\A r \in Rs :
            (req[r].pc = "txCommit" /\ req'[r].pc = "log") =>
                req'[r].credits_remaining = userDoc'.credits]_vars
    /\ [](\A r1, r2 \in Rs :
            (r1 # r2 /\ Debited(r1) /\ Debited(r2)) =>
                req[r1].credits_remaining # req[r2].credits_remaining)
    /\ [](Cardinality({r \in Rs : Debited(r)}) <= OrZero(initDoc, "credits"))

\* two overlapping calls both succeeded: the one whose first commit attempt
\* met a conflict reports the lower balance
C35_Witness ==
    \E r1, r2 \in Rs :
        /\ req[r1].status = 200 /\ req[r2].status = 200
        /\ req[r1].credits_remaining = 1
        /\ req[r2].credits_remaining = 0
        /\ OrZero(userDoc, "credits") = 0

\* C36: credits + totalRequests of the account is in every state what it
\* was at the start, whatever the interleaving of the metered calls
C36_CreditsPlusTotalConstant ==
    OrZero(userDoc, "credits") + OrZero(userDoc, "totalRequests")
        = OrZero(initDoc, "credits") + OrZero(initDoc, "totalRequests")

\* every credit of an account that had never made a call has been spent
C36_Witness ==
    /\ ~Has(initDoc, "totalRequests")
    /\ Has(initDoc, "credits") /\ initDoc.credits = MaxCredits
    /\ userDoc.credits = 0
    /\ userDoc.totalRequests = MaxCredits

\* C37: with no concurrent call and no failure, a request that passed the
\* credit check of the authentication is not refused for its balance by
\* the debit after the generation call
C37_AdmittedCanBeDebited ==
    \A r \in Rs :
        (OnlyCall(r) /\ faults = 0 /\ req[r].admitted /\ req[r].generated)
            => req[r].code # "INSUFFICIENT_CREDITS"

C39_ExceptionExitsNonZero ==
    (exitCode = 0 /\ ~signalled) => trigger.name # "uncaughtException"

(***************************************************************************)
(* Properties of the memory monitor and of the logger                      *)
(***************************************************************************)
\* C32: the memory classification that /choreo reports for a sample u is
\* 'healthy' iff u < WARNING, 'warning' iff WARNING <= u < CRITICAL,
\* 'critical' iff CRITICAL <= u < MAX and 'max' iff u >= MAX, so a sample
\* equal to a threshold is classified at that threshold's level
C32_ClassifiedAtThresholdLevel ==
    \A r \in DOMAIN req :
        (Served(r, "choreo") /\ req[r].status # notFound.status) =>
            LET u == req[r].heapUsed
                level == req[r].memory
            IN  /\ level = "healthy" <=> u < MEMORY_THRESHOLDS_WARNING
                /\ level = "warning" <=> (/\ MEMORY_THRESHOLDS_WARNING <= u
                                          /\ u < MEMORY_THRESHOLDS_CRITICAL)
                /\ level = "critical" <=> (/\ MEMORY_THRESHOLDS_CRITICAL <= u
                                           /\ u < MEMORY_THRESHOLDS_MAX)
                /\ level = "max" <=> u >= MEMORY_THRESHOLDS_MAX

\* C33: a collection is requested once per breach of CRITICAL: while the
\* monitor keeps seeing usage above CRITICAL it has requested at most one
\* collection since usage rose above it, and no step that serves a request
\* requests a collection
C33_OneCollectionPerBreach ==
    /\ [](gcRequests <= 1)
    /\ [][req' # req => gcRequests' = gcRequests]_vars

C40_EmitsIffSevereEnough ==
    (LOG_LEVEL \in Severities /\ lastLog.severity # "none") =>
        (lastLog.emitted <=>
            LOG_LEVELS[lastLog.severity] <= LOG_LEVELS[LOG_LEVEL])
====
